---- MODULE Spec2Model ----
(***************************************************************************)
(* A model of scripts/migrate_to_firebase.py: the resumable batch          *)
(* migration of rag_chunks rows from the relational source (Supabase /     *)
(* PostgreSQL) to a document store (Firestore) and a blob store (Firebase   *)
(* Storage), its checkpoint file, and the gated cleanup of the source.     *)
(*                                                                         *)
(* One process (main) runs at a time.  Every I/O call is one step; the     *)
(* process may be killed between any two steps, and every I/O call may     *)
(* raise.                                                                  *)
(***************************************************************************)
EXTENDS Integers, Sequences, FiniteSets, TLC

\* ------------------------------------------------------------------ bounds
\* Source ids are drawn from 1..MaxId.
MaxId == 2
\* --batch-size is drawn from 1..MaxBatch.
MaxBatch == 2
\* Number of times the tool is started.
MaxRuns == 2
\* Number of I/O calls that raise, over all runs.
MaxFaults == 1

\* Calls of the moderation endpoint.
MaxRequests == 2

Ids == 1..MaxId

\* ----------------------------------------------------------- small helpers
\* A nullable value is a set with at most one element: {} is NULL / None.
None == {}
Some(x) == {x}
The(m) == CHOOSE x \in m : TRUE

\* A store keyed by k: insert or overwrite (upsert).
Put(f, k, v) == [x \in (DOMAIN f) \cup {k} |-> IF x = k THEN v ELSE f[x]]

EmptyMap == [x \in {} |-> {}]

\* --------------------------------------------------------------- the data
\* The serialized vector of a row is a list of tokens between brackets.
GoodVector == <<"0.1", "0.2">>
BadVector == <<"0.1", "oops">>

\* Truthiness of a nullable text (Python: None and '' are falsy).
Truthy(m) == m # None /\ The(m) # ""

\* The kinds of rows a source starts with.
RowKinds == {
    [content |-> Some("hello"), embedding |-> Some(GoodVector), meta |-> EmptyMap],
    [content |-> Some(""),      embedding |-> Some(GoodVector), meta |-> [note |-> Some("n")]],
    [content |-> Some("hello"), embedding |-> Some(BadVector),  meta |-> EmptyMap],
    [content |-> Some("hello"), embedding |-> None,             meta |-> [note |-> Some("n")]] }

Row(i, k) == [id |-> i, source_table |-> "games", title |-> Some("t"),
              content |-> k.content, embedding |-> k.embedding, meta |-> k.meta]

Sources == UNION { { [i \in S |-> Row(i, kind[i])] : kind \in [S -> RowKinds] } : S \in SUBSET Ids }

\* The checkpoint file: absent, partially written, or a complete JSON object.
ZeroProgress == [last_id |-> 0, migrated_count |-> 0, total_count |-> 0]
NoFile == [state |-> "absent", data |-> ZeroProgress]
PartialFile == [state |-> "partial", data |-> ZeroProgress]
FileOf(p) == [state |-> "ok", data |-> p]

\* What the operator can type at the cleanup prompt, as lists of characters.
YES == <<"Y", "E", "S">>
Responses == { YES, <<" ", "Y", "E", "S", " ">>, <<"y", "e", "s">>, <<>> }

\* ------------------------------------------------- pure parts of the code
\* str.strip(): leading and trailing whitespace removed.
RECURSIVE LStrip(_)
LStrip(s) == IF s # <<>> /\ Head(s) = " " THEN LStrip(Tail(s)) ELSE s

RECURSIVE RStrip(_)
RStrip(s) == IF s # <<>> /\ s[Len(s)] = " " THEN RStrip(SubSeq(s, 1, Len(s) - 1)) ELSE s

strip(s) == RStrip(LStrip(s))

\* json.loads of a bracketed list: every token must be a number; the result
\* holds the numbers (in tenths), or the call raises.
IsNumber(tok) == tok \in {"0.1", "0.2"}
NumberOf(tok) == IF tok = "0.1" THEN 1 ELSE 2
json_loads(text) ==
    IF \A i \in 1..Len(text) : IsNumber(text[i])
    THEN [raised |-> FALSE, value |-> [i \in 1..Len(text) |-> NumberOf(text[i])]]
    ELSE [raised |-> TRUE, value |-> <<>>]

\* len(content)
len(text) == IF text = "" THEN 0 ELSE 5

\* jsonb || jsonb: the keys of both, the right operand winning.
JsonbConcat(a, b) ==
    [k \in (DOMAIN a) \cup (DOMAIN b) |-> IF k \in DOMAIN b THEN b[k] ELSE a[k]]

\* meta ? 'firebase_doc_id'
HasMarker(row) == "firebase_doc_id" \in DOMAIN row.meta

\* _load_progress as it would be if the file were never read.
load_progress_ignoring_file(f) == ZeroProgress

\* _load_progress: the file's object when the file exists, else zeros.
load_progress(f) == IF f.state = "absent" THEN ZeroProgress ELSE f.data

\* get_total_count: SELECT COUNT(*) FROM rag_chunks WHERE id > last_id.
get_total_count(src, last) == Cardinality({i \in DOMAIN src : i > last})

\* fetch_batch: the rows with id > last_id, ORDER BY id, LIMIT batch_size.
RECURSIVE Ascending(_, _)
Ascending(src, S) ==
    IF S = {} THEN <<>>
    ELSE LET m == CHOOSE i \in S : \A j \in S : i <= j
         IN <<src[m]>> \o Ascending(src, S \ {m})

Limit(s, n) == IF Len(s) <= n THEN s ELSE SubSeq(s, 1, n)

\* The query as it would be with ORDER BY id DESC.
fetch_batch_descending(src, last, n) ==
    LET s == Ascending(src, {i \in DOMAIN src : i > last})
    IN Limit([k \in 1..Len(s) |-> s[Len(s) + 1 - k]], n)

fetch_batch(src, last, n) == Limit(Ascending(src, {i \in DOMAIN src : i > last}), n)

\* The condition as it would be without "not self.skip_storage".
UploadNeeded_ignoring_skip(skip, content) == Truthy(content)

\* migrate_chunk, part A: a blob is uploaded when storage is used and the
\* content is non-empty (self.bucket is None exactly when skip_storage).
UploadNeeded(skip, content) == ~skip /\ Truthy(content)

\* f"rag_chunks/{source_table}/{id}.txt"
blob_path(chunk) == <<"rag_chunks", chunk.source_table, chunk.id>>

\* The guard of the writes as it would be if dry_run were not tested.
ShouldWrite_always(dry) == TRUE

\* The writes of migrate_chunk are all under "if not self.dry_run".
ShouldWrite(dry) == ~dry

\* migrate_chunk, part B: the embedding as stored in the document. A falsy
\* embedding leaves the key out; a string is parsed, which may raise.
ParsedEmbedding(chunk) ==
    IF chunk.embedding = None
    THEN [raised |-> FALSE, field |-> None]
    ELSE LET r == json_loads(The(chunk.embedding))
         IN [raised |-> r.raised, field |-> IF r.raised THEN None ELSE Some(r.value)]

\* The document as it would be if it named the blob path whether or not a
\* blob was produced.
firestore_data_always_path(chunk, sp, emb) ==
    [id |-> chunk.id,
     sourceTable |-> chunk.source_table,
     title |-> chunk.title,
     meta |-> chunk.meta,
     migratedAt |-> "SERVER_TIMESTAMP",
     embedding |-> emb,
     storagePath |-> Some(blob_path(chunk)),
     contentLength |-> IF chunk.content # None THEN Some(len(The(chunk.content))) ELSE Some(0),
     content |-> None]

\* The document built by migrate_chunk. An optional key is None when the
\* document has no such key; content, when present, holds the row's nullable
\* content.
firestore_data(chunk, sp, emb) ==
    [id |-> chunk.id,
     sourceTable |-> chunk.source_table,
     title |-> chunk.title,
     meta |-> chunk.meta,
     migratedAt |-> "SERVER_TIMESTAMP",
     embedding |-> emb,
     storagePath |-> sp,
     contentLength |-> IF sp # None THEN Some(len(The(chunk.content))) ELSE None,
     content |-> IF sp # None THEN None ELSE Some(chunk.content)]

\* migrate_chunk, part C: the marker merged into the row's meta.
Marker(id, sp) ==
    [firebase_doc_id |-> Some(ToString(id)),
     firebase_migrated_at |-> Some("now"),
     firebase_storage_path |-> sp]

\* The UPDATE as it would be with "SET meta = %s::jsonb".
annotate_replacing(src, id, sp) ==
    [i \in DOMAIN src |->
        IF i = id THEN [src[i] EXCEPT !.meta = Marker(id, sp)] ELSE src[i]]

annotate(src, id, sp) ==
    [i \in DOMAIN src |->
        IF i = id THEN [src[i] EXCEPT !.meta = JsonbConcat(@, Marker(id, sp))] ELSE src[i]]

\* The assignment as it would be if it ran one id ahead.
advance_last_id_ahead(last, chunk, ok) == chunk.id + 1

\* The assignment as it would be inside "if self.migrate_chunk(chunk):".
advance_last_id_on_success(last, chunk, ok) == IF ok THEN chunk.id ELSE last

\* run(): last_id = chunk['id'], after every chunk, whatever migrate_chunk returned.
advance_last_id(last, chunk, ok) == chunk.id

\* The progress as it would be with "=" for "+=".
batch_progress_assigning(p, last, successes) ==
    [p EXCEPT !.last_id = last, !.migrated_count = successes]

\* The progress as it would be if last_id were not stored.
batch_progress_keep_last(p, last, successes) ==
    [p EXCEPT !.migrated_count = @ + successes]

\* run(): the progress as changed before _save_progress.
batch_progress(p, last, successes) ==
    [p EXCEPT !.last_id = last, !.migrated_count = @ + successes]

\* The test as it would be if it never held.
ShortBatch_never(b, n) == FALSE

\* The test as it would be with <= for <.
ShortBatch_or_full(b, n) == Len(b) <= n

\* run(): the loop ends after a batch shorter than batch_size.
ShortBatch(b, n) == Len(b) < n

\* The removal as it would be if dry_run were not tested.
ShouldUnlink_any_mode(dry, f) == f.state # "absent"

\* run(): the checkpoint file is removed at the end of a non-dry run.
ShouldUnlink(dry, f) == ~dry /\ f.state # "absent"

\* The condition as it would be if --dry-run were not tested.
ShouldCleanup_flag_only(flag, dry) == flag

\* main(): cleanup follows run() only with --cleanup and without --dry-run.
ShouldCleanup(flag, dry) == flag /\ ~dry

\* The checks as they would be without the prompt.
CleanupProceeds_confirm_only(conf, response) == conf

\* cleanup_supabase: the two checks before the UPDATE.
CleanupProceeds(conf, response) == conf /\ strip(response) = YES

\* The UPDATE as it would be without its WHERE clause.
CleanupUpdate_all_rows(src) ==
    [i \in DOMAIN src |-> [src[i] EXCEPT !.content = None, !.embedding = None]]

\* cleanup_supabase: UPDATE ... SET content = NULL, embedding = NULL
\* WHERE meta ? 'firebase_doc_id', and its rowcount.
CleanupUpdate(src) ==
    [i \in DOMAIN src |->
        IF HasMarker(src[i]) THEN [src[i] EXCEPT !.content = None, !.embedding = None]
        ELSE src[i]]

rowcount(src) == Cardinality({i \in DOMAIN src : HasMarker(src[i])})

\* ---------------------------------------------------------------- the state
VARIABLES
    \* the stores
    source,         \* rag_chunks: id -> row
    docs,           \* Firestore collection rag_chunks: document id -> document
    blobs,          \* Storage bucket: path -> text
    file,           \* migration_progress.json
    \* the running process: main() and its FirebaseMigration object
    pc,             \* where the process is
    dry_run, skip_storage, batch_size, cleanup,     \* the command line
    progress,       \* self.progress
    conn,           \* self.pg_conn: "ok", or "aborted" (a failed transaction, never rolled back)
    last_id, batch, idx, success_count,             \* locals of run(); idx is the loop position
    storage_path,   \* local of migrate_chunk
    confirm,        \* parameter of cleanup_supabase
    \* history, read by the properties only
    runs,           \* processes started so far
    faults,         \* I/O calls that have raised so far
    start_file,     \* the checkpoint file as the current process found it
    run_att,        \* ids given to migrate_chunk by the current process
    run_ok,         \* ids for which migrate_chunk returned True in the current process
    lin,            \* the checkpoint lineage: since the last start without a checkpoint file
    saves,          \* the (last_id, migrated_count) pairs persisted by the current process
    prev_saves,     \* those of the dry run that a replayed real run is compared with
    replay,         \* the current process replays the previous dry run as a real run
    snap,           \* the target stores left by the previous process, if it was a complete clean real run
    cleanup_log,    \* the last call of cleanup_supabase
    ever_att,       \* ids ever given to migrate_chunk, by any process
    start_ids,      \* the ids of the source rows when the current process started
    prev_crash,     \* what the previous process was doing when it was killed, if it is noted
    \* the moderation endpoint: one call of safety_check at a time
    sc_pc,          \* where the call is
    payload,        \* the request body
    api_key,        \* settings.gemini_api_key
    reply,          \* what the backend did
    result,         \* what safety_check gave back
    served          \* calls of safety_check so far

world == <<source, docs, blobs, file>>
args == <<dry_run, skip_storage, batch_size, cleanup>>
locals == <<progress, conn, last_id, batch, idx, success_count, storage_path, confirm>>
hist == <<runs, faults, start_file, run_att, run_ok, lin, saves, prev_saves, replay, snap,
          cleanup_log, ever_att>>
endpoint == <<sc_pc, payload, api_key, reply, result, served>>
rest == <<prev_crash, start_ids, endpoint>>
vars == <<pc, world, args, locals, hist, rest>>

Terminal == {"idle", "exited", "crashed", "aborted"}
InBatch == {"chunk_a", "chunk_b", "chunk_c", "save_a", "save_b"}
Running == {"count", "fetch", "finish", "returned", "cleanup"} \cup InBatch

NewLineage(d) == [ok |-> [i \in Ids |-> 0], clean |-> TRUE, real |-> ~d]
NoSnap == [valid |-> FALSE, docs |-> EmptyMap, blobs |-> EmptyMap, skip |-> FALSE, bs |-> 0]
NoReply == [kind |-> "none", text |-> <<>>]
NoResult == [kind |-> "none", value |-> [type |-> "null", fields |-> EmptyMap]]
NoCrash == [noted |-> FALSE, att |-> {}, inflight |-> {}, bs |-> 0]
NoLog == [called |-> FALSE, confirm |-> FALSE, prompted |-> FALSE, response |-> <<>>,
          before |-> EmptyMap, affected |-> 0, updated |-> FALSE]

\* No call of safety_check is in progress.
InitEndpoint ==
    /\ sc_pc = "idle" /\ payload = None /\ api_key = None /\ reply = NoReply /\ result = NoResult
    /\ served = 0

Init ==
    /\ source \in Sources
    /\ docs = EmptyMap /\ blobs = EmptyMap /\ file = NoFile
    /\ pc = "idle"
    /\ dry_run = FALSE /\ skip_storage = FALSE /\ batch_size = 1 /\ cleanup = FALSE
    /\ progress = ZeroProgress /\ conn = "ok"
    /\ last_id = 0 /\ batch = <<>> /\ idx = 0 /\ success_count = 0
    /\ storage_path = None /\ confirm = FALSE
    /\ runs = 0 /\ faults = 0 /\ start_file = NoFile /\ run_att = {} /\ run_ok = {}
    /\ lin = NewLineage(FALSE) /\ saves = <<>> /\ prev_saves = <<>> /\ replay = FALSE
    /\ snap = NoSnap /\ cleanup_log = NoLog
    /\ ever_att = {} /\ start_ids = {} /\ prev_crash = NoCrash
    /\ InitEndpoint

\* ------------------------------------------------------------- the process
\* The process ends: its memory is gone.
Stop(how) ==
    /\ pc' = how
    /\ progress' = ZeroProgress /\ conn' = "ok" /\ last_id' = 0 /\ batch' = <<>> /\ idx' = 0
    /\ success_count' = 0 /\ storage_path' = None /\ confirm' = FALSE

\* The process ends by an exception or a kill.
Die(how) ==
    /\ Stop(how)
    /\ dry_run' = FALSE /\ skip_storage' = FALSE /\ batch_size' = 1 /\ cleanup' = FALSE
    /\ start_file' = NoFile /\ run_att' = {} /\ run_ok' = {} /\ saves' = <<>>
    /\ prev_saves' = <<>> /\ replay' = FALSE /\ snap' = NoSnap /\ cleanup_log' = NoLog
    /\ lin' = [lin EXCEPT !.clean = @ /\ pc \notin InBatch]
    /\ start_ids' = {}
    /\ UNCHANGED <<world, runs, ever_att, endpoint>>

\* FirebaseMigration is constructed, which loads the checkpoint file f;
\* json.load raises on a partially written file. The caller goes on at entry.
Construct(f, d, s, b, entry, conf) ==
    /\ dry_run' = d /\ skip_storage' = s /\ batch_size' = b /\ cleanup' = FALSE
    /\ conn' = "ok"
    /\ last_id' = 0 /\ batch' = <<>> /\ idx' = 0 /\ success_count' = 0
    /\ storage_path' = None
    /\ start_file' = f /\ run_att' = {} /\ run_ok' = {} /\ saves' = <<>>
    /\ cleanup_log' = NoLog
    /\ start_ids' = DOMAIN source
    /\ prev_crash' = IF pc = "crashed" THEN prev_crash ELSE NoCrash
    /\ UNCHANGED <<ever_att, endpoint>>
    /\ IF f.state = "partial"
       THEN /\ pc' = "aborted" /\ progress' = ZeroProgress /\ lin' = lin
            /\ confirm' = FALSE
       ELSE /\ pc' = entry
            /\ confirm' = conf
            /\ progress' = load_progress(f)
            /\ lin' = IF f.state = "absent" THEN NewLineage(d)
                      ELSE [lin EXCEPT !.real = @ /\ ~d]

\* main() is started: the command line is parsed, the object constructed, run() called.
Start(d, s, b) ==
    /\ pc \in Terminal
    /\ runs < MaxRuns
    /\ runs' = runs + 1
    /\ Construct(file, d, s, b, "count", FALSE)
    /\ prev_saves' = <<>> /\ replay' = FALSE
    /\ UNCHANGED <<world, snap, faults>>

\* run(), lines 199-214: the remaining count is read once; nothing to do ends the run.
Count ==
    /\ pc = "count"
    /\ LET total == get_total_count(source, progress.last_id) IN
        /\ progress' = [progress EXCEPT !.total_count = total]
        /\ IF total = 0
           THEN pc' = "returned" /\ last_id' = last_id
           ELSE pc' = "fetch" /\ last_id' = progress.last_id
    /\ UNCHANGED <<world, args, conn, batch, idx, success_count, storage_path, confirm, hist, rest>>

\* run(), lines 216-224: the next batch; an empty one ends the loop.
Fetch ==
    /\ pc = "fetch"
    /\ conn = "ok"
    /\ batch' = fetch_batch(source, last_id, batch_size)
    /\ IF batch' = <<>>
       THEN pc' = "finish" /\ idx' = idx /\ success_count' = success_count
       ELSE pc' = "chunk_a" /\ idx' = 1 /\ success_count' = 0
    /\ UNCHANGED <<world, args, progress, conn, last_id, storage_path, confirm, hist, rest>>

\* run(), lines 226-230: migrate_chunk has returned ok for batch[idx].
ChunkDone(ok) ==
    LET chunk == batch[idx] IN
    /\ success_count' = IF ok THEN success_count + 1 ELSE success_count
    /\ last_id' = advance_last_id(last_id, chunk, ok)
    /\ run_ok' = IF ok THEN run_ok \cup {chunk.id} ELSE run_ok
    /\ lin' = IF ok THEN [lin EXCEPT !.ok[chunk.id] = IF @ < 2 THEN @ + 1 ELSE @]
              ELSE [lin EXCEPT !.clean = FALSE]
    /\ storage_path' = None
    /\ IF idx < Len(batch)
       THEN pc' = "chunk_a" /\ idx' = idx + 1
       ELSE pc' = "save_a" /\ idx' = idx
    /\ UNCHANGED <<args, progress, batch, confirm>>
    /\ UNCHANGED <<runs, start_file, saves, prev_saves, replay, snap, cleanup_log, rest>>

\* An I/O call raises.
Fault == faults < MaxFaults /\ faults' = faults + 1

\* migrate_chunk, lines 115-128: the blob.
MigrateA ==
    /\ pc = "chunk_a"
    /\ LET chunk == batch[idx] IN
        /\ run_att' = run_att \cup {chunk.id}
        /\ ever_att' = ever_att \cup {chunk.id}
        /\ IF UploadNeeded(skip_storage, chunk.content)
           THEN /\ blobs' = IF ShouldWrite(dry_run)
                             THEN Put(blobs, blob_path(chunk), The(chunk.content))
                             ELSE blobs
                /\ storage_path' = Some(blob_path(chunk))
           ELSE /\ blobs' = blobs
                /\ storage_path' = None
    /\ pc' = "chunk_b"
    /\ UNCHANGED <<source, docs, file, args, progress, conn, last_id, batch, idx,
                   success_count, confirm>>
    /\ UNCHANGED <<runs, faults, start_file, run_ok, lin, saves, prev_saves, replay, snap, cleanup_log, rest>>

\* blob.upload_from_string raises: except, return False.
UploadFail ==
    /\ pc = "chunk_a"
    /\ UploadNeeded(skip_storage, batch[idx].content) /\ ShouldWrite(dry_run)
    /\ Fault
    /\ run_att' = run_att \cup {batch[idx].id}
    /\ ever_att' = ever_att \cup {batch[idx].id}
    /\ ChunkDone(FALSE)
    /\ UNCHANGED <<world, conn>>

\* migrate_chunk, lines 130-164: the document. A malformed embedding raises
\* in json.loads: except, return False.
MigrateB ==
    /\ pc = "chunk_b"
    /\ LET chunk == batch[idx]
           emb == ParsedEmbedding(chunk) IN
        IF emb.raised
        THEN /\ ChunkDone(FALSE)
             /\ UNCHANGED <<world, conn, run_att, ever_att, faults>>
        ELSE /\ docs' = IF ShouldWrite(dry_run)
                         THEN Put(docs, ToString(chunk.id),
                                  firestore_data(chunk, storage_path, emb.field))
                         ELSE docs
             /\ pc' = "chunk_c"
             /\ UNCHANGED <<source, blobs, file, args, locals, hist, rest>>

\* doc_ref.set raises, as it would be if the exception were swallowed and
\* migrate_chunk went on to the annotation.
DocSetFail_going_on ==
    /\ pc = "chunk_b"
    /\ ~ParsedEmbedding(batch[idx]).raised /\ ShouldWrite(dry_run)
    /\ Fault
    /\ pc' = "chunk_c"
    /\ UNCHANGED <<world, args, locals, rest>>
    /\ UNCHANGED <<runs, start_file, run_att, run_ok, lin, saves, prev_saves, replay, snap,
                   cleanup_log, ever_att>>

\* doc_ref.set raises: except, return False.
DocSetFail ==
    /\ pc = "chunk_b"
    /\ ~ParsedEmbedding(batch[idx]).raised /\ ShouldWrite(dry_run)
    /\ Fault
    /\ ChunkDone(FALSE)
    /\ UNCHANGED <<world, conn, run_att, ever_att>>

\* migrate_chunk, lines 166-182: the marker is merged into the row's meta and
\* committed; return True.
MigrateC ==
    /\ pc = "chunk_c"
    /\ IF ShouldWrite(dry_run)
       THEN /\ conn = "ok"
            /\ source' = annotate(source, batch[idx].id, storage_path)
       ELSE source' = source
    /\ ChunkDone(TRUE)
    /\ UNCHANGED <<docs, blobs, file, conn, run_att, ever_att, faults>>

\* The UPDATE or the commit raises: except, return False. No rollback follows,
\* so the connection stays in its failed transaction.
AnnotateFail ==
    /\ pc = "chunk_c"
    /\ ShouldWrite(dry_run)
    /\ conn = "ok" => Fault
    /\ conn = "aborted" => faults' = faults
    /\ conn' = "aborted"
    /\ ChunkDone(FALSE)
    /\ UNCHANGED <<world, run_att, ever_att>>

\* run(), lines 233-235 and _save_progress, line 81: open(..., 'w') truncates the file.
SaveA ==
    /\ pc = "save_a"
    /\ progress' = batch_progress(progress, last_id, success_count)
    /\ file' = PartialFile
    /\ pc' = "save_b"
    /\ UNCHANGED <<source, docs, blobs, args, conn, last_id, batch, idx, success_count,
                   storage_path, confirm, hist, rest>>

\* _save_progress, line 82, and run(), lines 238-239: the object is written;
\* a short batch ends the loop.
SaveB ==
    /\ pc = "save_b"
    /\ file' = FileOf(progress)
    /\ saves' = Append(saves, <<progress.last_id, progress.migrated_count>>)
    /\ pc' = IF ShortBatch(batch, batch_size) THEN "finish" ELSE "fetch"
    /\ UNCHANGED <<source, docs, blobs, args, locals>>
    /\ UNCHANGED <<runs, faults, start_file, run_att, run_ok, lin, prev_saves, replay, snap, cleanup_log,
                   ever_att, rest>>

\* run(), lines 241-248: the summary, and the checkpoint file is removed.
Finish ==
    /\ pc = "finish"
    /\ file' = IF ShouldUnlink(dry_run, file) THEN NoFile ELSE file
    /\ pc' = "returned"
    /\ UNCHANGED <<source, docs, blobs, args, locals, hist, rest>>

\* main(), lines 342-346: run() has returned; --cleanup is read.
AfterRun ==
    /\ pc = "returned"
    /\ \E c \in BOOLEAN :
        /\ cleanup' = c
        /\ IF ShouldCleanup(c, dry_run)
           THEN /\ pc' = "cleanup" /\ confirm' = TRUE
                /\ UNCHANGED <<progress, conn, last_id, batch, idx, success_count, storage_path>>
           ELSE Stop("exited")
        /\ snap' = IF ~dry_run /\ ~c /\ start_file.state = "absent" /\ run_att = run_ok
                   THEN [valid |-> TRUE, docs |-> docs, blobs |-> blobs,
                         skip |-> skip_storage, bs |-> batch_size]
                   ELSE NoSnap
    /\ UNCHANGED <<world, dry_run, skip_storage, batch_size>>
    /\ UNCHANGED <<runs, faults, start_file, run_att, run_ok, lin, saves, prev_saves, replay, cleanup_log,
                   ever_att, rest>>

\* cleanup_supabase: the confirm parameter, the prompt (reached only with
\* confirm, so without it nothing is typed), the UPDATE.
Cleanup ==
    /\ pc = "cleanup"
    /\ \E r \in Responses :
        LET go == CleanupProceeds(confirm, r) IN
        /\ ~confirm => r = <<>>
        /\ go => conn = "ok"
        /\ source' = IF go THEN CleanupUpdate(source) ELSE source
        /\ cleanup_log' = [called |-> TRUE, confirm |-> confirm, prompted |-> confirm,
                           response |-> r, before |-> source,
                           affected |-> IF go THEN rowcount(source) ELSE 0,
                           updated |-> go]
    /\ Stop("exited")
    /\ UNCHANGED <<docs, blobs, file, args>>
    /\ UNCHANGED <<runs, faults, start_file, run_att, run_ok, lin, saves, prev_saves, replay, snap,
                   ever_att, rest>>

\* An exception outside migrate_chunk's try block ends the process: the
\* database fails in get_total_count, fetch_batch or the cleanup UPDATE, or
\* the checkpoint file cannot be opened or written.
RunError ==
    /\ pc \in {"count", "fetch", "cleanup", "save_a", "save_b"}
    /\ pc \in {"count", "fetch", "cleanup"} => conn = "ok"
    /\ Fault
    /\ Die("aborted")
    /\ prev_crash' = NoCrash

\* A statement on a connection whose transaction has failed raises.
AbortedTransaction ==
    /\ pc \in {"fetch", "cleanup"}
    /\ conn = "aborted"
    /\ Die("aborted")
    /\ faults' = faults /\ prev_crash' = NoCrash

\* The process is killed between two steps.
Crash ==
    /\ pc \in Running
    /\ Die("crashed")
    /\ faults' = faults /\ prev_crash' = NoCrash

Next ==
    \/ \E d \in BOOLEAN, s \in BOOLEAN, b \in 1..MaxBatch : Start(d, s, b)
    \/ Count
    \/ Fetch
    \/ MigrateA
    \/ UploadFail
    \/ MigrateB
    \/ DocSetFail
    \/ MigrateC
    \/ AnnotateFail
    \/ SaveA
    \/ SaveB
    \/ Finish
    \/ AfterRun
    \/ Cleanup
    \/ RunError
    \/ AbortedTransaction
    \/ Crash

Spec == Init /\ [][Next]_vars

\* A process inside run() takes its next step: the interpreter goes on unless
\* the process is killed.
RunStep ==
    \/ Count
    \/ Fetch
    \/ MigrateA
    \/ MigrateB
    \/ MigrateC
    \/ AnnotateFail
    \/ SaveA
    \/ SaveB
    \/ AbortedTransaction

SpecFair == Spec /\ WF_vars(RunStep)

\* ------------------------------------------------ two more ways to use the tool
\* A caller other than main() constructs the object (with the constructor's
\* default flags) and calls cleanup_supabase(confirm = c).
DirectCleanup(c) ==
    /\ pc \in Terminal
    /\ runs < MaxRuns
    /\ runs' = runs + 1
    /\ Construct(file, FALSE, FALSE, 1, "cleanup", c)
    /\ prev_saves' = <<>> /\ replay' = FALSE
    /\ UNCHANGED <<world, snap, faults>>

NextApi == Next \/ \E c \in BOOLEAN : DirectCleanup(c)

SpecApi == Init /\ [][NextApi]_vars

\* After a dry run has ended, the operator puts the checkpoint file back as
\* the dry run found it and starts the tool again without --dry-run, with the
\* same --batch-size and --skip-storage.
ReplayReal ==
    /\ pc = "exited" /\ dry_run /\ ~replay
    /\ file' = start_file
    /\ Construct(start_file, FALSE, skip_storage, batch_size, "count", FALSE)
    /\ prev_saves' = saves /\ replay' = TRUE
    /\ UNCHANGED <<source, docs, blobs, runs, faults, snap>>

NextReplay == Next \/ ReplayReal

SpecReplay == Init /\ [][NextReplay]_vars

\* The process is killed inside a non-dry run(), and what it was doing is
\* noted: the ids it had given to migrate_chunk, and the ids of the batch
\* it had fetched and not yet checkpointed.
InFlight == IF pc \in InBatch THEN {batch[k].id : k \in 1..Len(batch)} ELSE {}

CrashNoted ==
    /\ pc \in {"count", "fetch", "finish"} \cup InBatch
    /\ ~dry_run
    /\ Die("crashed")
    /\ faults' = faults
    /\ prev_crash' = [noted |-> TRUE, att |-> run_att, inflight |-> InFlight, bs |-> batch_size]

NextResume == Next \/ CrashNoted

SpecResume == Init /\ [][NextResume]_vars

\* Other clients of the source, while run() is at work. One inserts a row;
\* ids are serial, so the new id is above every id in the table.
Insert ==
    /\ pc \in {"count", "fetch"} \cup InBatch
    /\ \E i \in Ids, k \in RowKinds :
        /\ \A j \in DOMAIN source : j < i
        /\ source' = [j \in (DOMAIN source) \cup {i} |-> IF j = i THEN Row(i, k) ELSE source[j]]
    /\ UNCHANGED <<docs, blobs, file, pc, args, locals, hist, rest>>

\* One sets a key of its own in the meta of a row that the tool has fetched
\* and not yet annotated.
OtherKey == [tag |-> Some("x")]

TouchMeta ==
    /\ pc \in {"chunk_a", "chunk_b", "chunk_c"}
    /\ \E k \in idx..Len(batch) :
        /\ "tag" \notin DOMAIN source[batch[k].id].meta
        /\ source' = [source EXCEPT ![batch[k].id].meta = JsonbConcat(@, OtherKey)]
    /\ UNCHANGED <<docs, blobs, file, pc, args, locals, hist, rest>>

NextEnv == Next \/ Insert \/ TouchMeta

SpecEnv == Init /\ [][NextEnv]_vars

\* ------------------------------------------------- the moderation endpoint
\* app/routers/moderation.py: safety_check. The text of the backend's reply
\* is a list of tokens; an object is "{" key value key value ... "}".
ReplyTexts == {
    <<"{", "category", "SAFE", "reason", "ok", "action", "ALLOW", "}">>,
    <<"{", "category", "INAPPROPRIATE", "reason", "abuse", "action", "BLOCK", "}">>,
    <<"{", "category", "HATE", "reason", "abuse", "action", "DELETE", "}">>,
    <<"{", "category", "SPAM", "reason", "ad", "}">>,
    <<"{", "category", "SAFE", "reason", "ok", "action">>,
    <<"null">>,
    <<"Sure", "here", "it", "is">>,
    <<>> }

\* What the backend can do: generate_content raises, or it returns a text.
Replies == {[kind |-> "raises", text |-> <<>>]} \cup {[kind |-> "text", text |-> t] : t \in ReplyTexts}

\* The request bodies: no content key, empty content, two contents.
Payloads == {None, Some(""), Some("hello"), Some("buy now")}

\* settings.gemini_api_key: not set, empty, set.
ApiKeys == {None, Some(""), Some("k")}

\* json.loads of a reply: an object, null, or the call raises.
JsonNull == [type |-> "null", fields |-> EmptyMap]
JsonObject(text) ==
    LET n == (Len(text) - 2) \div 2
        keys == {text[2 * k] : k \in 1..n}
    IN [type |-> "object",
        fields |-> [key \in keys |->
                      text[1 + 2 * (CHOOSE k \in 1..n : text[2 * k] = key /\
                                       \A m \in 1..n : text[2 * m] = key => m <= k)]]]

json_loads_reply(text) ==
    IF text = <<"null">>
    THEN [raised |-> FALSE, value |-> JsonNull]
    ELSE IF Len(text) >= 2 /\ text[1] = "{" /\ text[Len(text)] = "}" /\ (Len(text) - 2) % 2 = 0
         THEN [raised |-> FALSE, value |-> JsonObject(text)]
         ELSE [raised |-> TRUE, value |-> JsonNull]

\* return <value>: the response body.
Returned(v) == [kind |-> "returned", value |-> v]

\* raise HTTPException(status_code=400, ...)
Http400 == [kind |-> "http_400", value |-> JsonNull]

\* The body of the two fail-open returns.
fail_open(reason) ==
    Returned([type |-> "object",
              fields |-> [category |-> "SAFE", reason |-> reason, action |-> "ALLOW"]])

\* What the handler and the settings leave alone.
migration == <<pc, world, args, locals, hist, prev_crash, start_ids>>

\* A request arrives.
Receive(p, key) ==
    /\ sc_pc \in {"idle", "done"}
    /\ served < MaxRequests
    /\ served' = served + 1
    /\ payload' = p /\ api_key' = key
    /\ reply' = NoReply /\ result' = NoResult
    /\ sc_pc' = "content"
    /\ UNCHANGED migration

\* Lines 17-19: payload.get("content", ""), and 400 without content.
CheckContent ==
    /\ sc_pc = "content"
    /\ IF Truthy(payload)
       THEN sc_pc' = "settings" /\ result' = result
       ELSE sc_pc' = "done" /\ result' = Http400
    /\ UNCHANGED <<payload, api_key, reply, served, migration>>

\* Lines 21-24: without an API key everything is allowed.
CheckKey ==
    /\ sc_pc = "settings"
    /\ IF Truthy(api_key)
       THEN sc_pc' = "generate" /\ result' = result
       ELSE sc_pc' = "done" /\ result' = fail_open("API Key not configured")
    /\ UNCHANGED <<payload, api_key, reply, served, migration>>

\* Lines 26-53 and 59-66: the model is called; an exception is caught.
Generate ==
    /\ sc_pc = "generate"
    /\ \E r \in Replies :
        /\ reply' = r
        /\ IF r.kind = "raises"
           THEN sc_pc' = "done" /\ result' = fail_open("System error")
           ELSE sc_pc' = "parse" /\ result' = result
    /\ UNCHANGED <<payload, api_key, served, migration>>

\* Lines 55-57 and 59-66: the text is parsed and what it holds is returned;
\* an exception of json.loads is caught.
Parse ==
    /\ sc_pc = "parse"
    /\ LET parsed == json_loads_reply(reply.text) IN
        result' = IF parsed.raised THEN fail_open("System error") ELSE Returned(parsed.value)
    /\ sc_pc' = "done"
    /\ UNCHANGED <<payload, api_key, reply, served, migration>>

NextEndpoint ==
    \/ \E p \in Payloads, key \in ApiKeys : Receive(p, key)
    \/ CheckContent
    \/ CheckKey
    \/ Generate
    \/ Parse

\* The endpoint alone, over an empty source.
InitEndpointOnly == Init /\ DOMAIN source = {}

SpecEndpoint == InitEndpointOnly /\ [][NextEndpoint]_vars

\* ------------------------------------------------------------ the properties
RowIds == DOMAIN source

\* A record of the current run failed although its embedding parses: an I/O call raised.
IOFailed == \E i \in run_att \ run_ok : ~ParsedEmbedding(source[i]).raised

\* C1. Resumability. When a non-dry run returns, in a checkpoint lineage
\* (the runs since the last start without a checkpoint file) in which no
\* record failed and every interruption happened outside the processing of a
\* batch: the run has attempted exactly the rows with id above the last_id it
\* loaded; over the lineage migrate_chunk has succeeded exactly once for
\* every row; and if no run of the lineage was dry, every row has its
\* document and its marker.
C1_Resumability ==
    (pc = "returned" /\ ~dry_run /\ lin.clean) =>
        /\ run_att = {i \in RowIds : i > start_file.data.last_id}
        /\ \A i \in RowIds : lin.ok[i] = 1
        /\ lin.real => \A i \in RowIds : ToString(i) \in DOMAIN docs /\ HasMarker(source[i])

\* A real run that resumed from a checkpoint and migrated the rest has returned.
C1_Witness ==
    /\ pc = "returned" /\ ~dry_run /\ lin.clean /\ lin.real
    /\ start_file.state = "ok" /\ start_file.data.last_id > 0
    /\ run_att # {} /\ run_att # RowIds

\* C2. Monotonic watermark. Whenever run() has persisted the checkpoint
\* after a batch, the file holds as last_id the id of the last record of that
\* batch, whatever migrate_chunk returned for the records of the batch.
C2_Watermark ==
    (pc \in {"fetch", "finish"} /\ batch # <<>>) =>
        /\ file.state = "ok"
        /\ file.data.last_id = batch[Len(batch)].id

\* The checkpoint has been persisted after a batch of two records that both failed.
C2_Witness ==
    /\ pc \in {"fetch", "finish"} /\ Len(batch) = 2
    /\ \A k \in 1..Len(batch) : batch[k].id \notin run_ok
    /\ file.state = "ok" /\ file.data.last_id = batch[2].id

\* C3. Dry-run purity. No step of a process running with dry_run changes the
\* source, the document store or the blob store.
C3_DryRunPurity ==
    [][(dry_run /\ pc \in Running) =>
          (source' = source /\ docs' = docs /\ blobs' = blobs)]_vars

\* A dry run has returned after migrate_chunk succeeded for a row that would
\* get a blob in a real run, and the stores are empty.
C3_Witness ==
    /\ pc = "returned" /\ dry_run /\ ~skip_storage
    /\ \E i \in run_ok : Truthy(source[i].content)
    /\ docs = EmptyMap /\ blobs = EmptyMap
    /\ \A i \in RowIds : ~HasMarker(source[i])

\* C4 as stated. A real run replaying a dry run (same source, same starting
\* checkpoint, same batch size, no I/O failure) persists the same sequence of
\* (last_id, migrated_count); and after every dry run that returns, the
\* checkpoint file exists and its migrated_count counts the successful records.
C4_AsStated ==
    /\ (pc = "returned" /\ replay /\ ~IOFailed) => saves = prev_saves
    /\ (pc = "returned" /\ dry_run) =>
            /\ file.state = "ok"
            /\ file.data.migrated_count = start_file.data.migrated_count + Cardinality(run_ok)

\* C4, amended. As stated, but the checkpoint file is claimed to exist after
\* a dry run only if the run found a checkpoint file or found at least one
\* row above its last_id.
C4_DryRunCheckpoint ==
    /\ (pc = "returned" /\ replay /\ ~IOFailed) => saves = prev_saves
    /\ (pc = "returned" /\ dry_run /\ (start_file.state = "ok" \/ run_att # {})) =>
            /\ file.state = "ok"
            /\ file.data.migrated_count = start_file.data.migrated_count + Cardinality(run_ok)

\* The real replay of a dry run of two batches has returned.
C4_Witness ==
    /\ pc = "returned" /\ replay /\ ~IOFailed
    /\ Len(prev_saves) = 2 /\ saves = prev_saves

\* C5 as stated. Idempotence. When a complete real run without failures
\* returns, and the process before it was such a run too (same flags, no
\* cleanup), the document store and the blob store are as that run left them.
C5_AsStated ==
    (/\ pc = "returned" /\ ~dry_run /\ start_file.state = "absent" /\ run_att = run_ok
     /\ snap.valid /\ snap.skip = skip_storage /\ snap.bs = batch_size) =>
        (docs = snap.docs /\ blobs = snap.blobs)

\* C6 as stated. cleanup_supabase changes nothing and affects no row unless
\* confirm was true and the operator typed exactly YES.
C6_AsStated ==
    (cleanup_log.called /\ (~cleanup_log.confirm \/ cleanup_log.response # YES)) =>
        (source = cleanup_log.before /\ cleanup_log.affected = 0)

\* C6, amended. cleanup_supabase changes nothing and affects no row unless
\* confirm was true and the operator's response, stripped of leading and
\* trailing whitespace, is YES.
C6_TwoFactorGate ==
    (cleanup_log.called /\
     (~cleanup_log.confirm \/ strip(cleanup_log.response) # YES)) =>
        (source = cleanup_log.before /\ cleanup_log.affected = 0 /\ ~cleanup_log.updated)

\* cleanup_supabase was called with confirm = false and has returned without
\* prompting, and a row carries the marker and still has its content.
C6_Witness ==
    /\ cleanup_log.called /\ ~cleanup_log.confirm /\ ~cleanup_log.prompted
    /\ \E i \in RowIds : HasMarker(source[i]) /\ source[i].content # None

\* C7. Cleanup eligibility and frame. After the UPDATE of cleanup_supabase
\* the source has the rows it had; a row whose meta held firebase_doc_id has
\* content and embedding null and its other fields as before; every other
\* row is as before; the reported count is the number of rows with the key.
C7_CleanupFrame ==
    cleanup_log.updated =>
        LET old == cleanup_log.before
            marked == {i \in DOMAIN old : "firebase_doc_id" \in DOMAIN old[i].meta}
        IN  /\ DOMAIN source = DOMAIN old
            /\ cleanup_log.affected = Cardinality(marked)
            /\ \A i \in DOMAIN old \ marked : source[i] = old[i]
            /\ \A i \in marked :
                /\ source[i].content = None /\ source[i].embedding = None
                /\ source[i].id = old[i].id /\ source[i].title = old[i].title
                /\ source[i].source_table = old[i].source_table
                /\ source[i].meta = old[i].meta

\* A confirmed cleanup has run over a source with a marked row that had
\* content and an unmarked row that has content.
C7_Witness ==
    /\ cleanup_log.updated
    /\ \E i \in RowIds : HasMarker(source[i]) /\ cleanup_log.before[i].content # None
    /\ \E i \in RowIds : ~HasMarker(source[i]) /\ source[i].content # None

\* C8. Cleanup reachability. main() enters cleanup_supabase only from the
\* return of run(), with --cleanup, without --dry-run and with confirm = true;
\* while cleanup_supabase runs the process is not dry.
C8_CleanupReachability ==
    /\ [](pc = "cleanup" => (cleanup /\ ~dry_run /\ confirm))
    /\ [][pc' = "cleanup" => (pc = "returned" /\ cleanup' /\ ~dry_run')]_vars

\* main() is in cleanup_supabase after a run that resumed from a checkpoint
\* and attempted rows.
C8_Witness ==
    /\ pc = "cleanup" /\ run_att # {} /\ start_file.state = "ok"

\* C9 as stated. Per-record failure containment: when the annotation of a
\* record has raised and migrate_chunk has returned False (the only way the
\* connection gets a failed transaction), the run goes on to the next batch:
\* the next fetch_batch does not end the process with an exception.
C9_AsStated ==
    [][(pc = "fetch" /\ conn = "aborted") => pc' # "aborted"]_vars

\* C10 as stated. Whenever a non-dry run() has returned, the checkpoint file
\* does not exist.
C10_AsStated ==
    (pc = "returned" /\ ~dry_run) => file.state = "absent"

\* C11 as stated. Checkpoint survives an aborted run: however the previous
\* process ended, at the next startup _load_progress returns a checkpoint
\* (the last one completely written, or zeros); the startup does not end
\* with an exception of _load_progress.
C11_AsStated ==
    [][(pc \in Terminal /\ runs' # runs) => pc' # "aborted"]_vars

\* C12. Bounded re-work after a crash. When a non-dry run() was killed and
\* the next process resumes from the checkpoint file, the records attempted
\* both before the kill and by the resumed process all belong to the batch
\* that was fetched and not yet checkpointed at the kill, and they are at
\* most batch_size (of the killed run) many.
C12_BoundedRework ==
    prev_crash.noted =>
        LET again == run_att \cap prev_crash.att IN
        /\ again \subseteq prev_crash.inflight
        /\ Cardinality(again) <= prev_crash.bs

\* A run was killed in its second batch and the resumed run, now returned,
\* attempted one of the two records again.
C12_Witness ==
    /\ pc = "returned" /\ prev_crash.noted
    /\ Cardinality(prev_crash.att) = 2
    /\ Cardinality(run_att \cap prev_crash.att) = 1

\* C13. Blob before document. In every reachable state, a document that
\* has a storagePath has a blob at that path, the path is the one of the
\* document's record, the document's contentLength is the blob's length, and
\* the blob holds the record's content (as long as the source still has it).
C13_BlobBeforeDocument ==
    \A k \in DOMAIN docs :
        docs[k].storagePath # None =>
            LET path == The(docs[k].storagePath) IN
            /\ path \in DOMAIN blobs
            /\ path = <<"rag_chunks", docs[k].sourceTable, docs[k].id>>
            /\ docs[k].contentLength = Some(len(blobs[path]))
            /\ source[docs[k].id].content # None =>
                    blobs[path] = The(source[docs[k].id].content)

\* One document names its blob, and another record has a blob but no
\* document that names it (its document write did not happen, or a later
\* run without storage wrote the document again).
C13_Witness ==
    /\ \E k \in DOMAIN docs : docs[k].storagePath # None
    /\ \E path \in DOMAIN blobs :
            \A k \in DOMAIN docs : docs[k].storagePath # Some(path)

\* Record j has been written to a target: it has a document, a blob or a marker.
Written(j) ==
    \/ ToString(j) \in DOMAIN docs
    \/ \E path \in DOMAIN blobs : path[3] = j
    \/ HasMarker(source[j])

\* A step of migrate_chunk that writes to a target for batch[idx]: the blob
\* upload, the document set, or the annotation.
WriteStep ==
    /\ ~dry_run
    /\ \/ pc = "chunk_a" /\ pc' = "chunk_b" /\ storage_path' # None
       \/ pc = "chunk_b" /\ pc' = "chunk_c"
       \/ pc = "chunk_c" /\ run_ok' # run_ok

\* C14 as stated. Global migration order: no record is written after a
\* record with a larger id has been written, over all batches and across a
\* kill followed by a resume.
C14_AsStated ==
    [][WriteStep => \A j \in RowIds : j > batch[idx].id => ~Written(j)]_vars

\* C14, amended. Within one run() the records are given to migrate_chunk in
\* strictly increasing order of id, so no record is written after a record
\* with a larger id was attempted by the same run, and every record written
\* has an id above the last_id the run loaded. (A resumed run writes again
\* the records of the batch that was in progress at the kill.)
C14_RunOrder ==
    [][/\ \A i \in run_att' \ run_att : \A j \in run_att : j < i
       /\ WriteStep =>
            /\ \A j \in run_att : j <= batch[idx].id
            /\ batch[idx].id > start_file.data.last_id]_vars

\* A real run that followed a killed real run has returned after migrating
\* two records, while the killed run had already attempted records.
C14_Witness ==
    /\ pc = "returned" /\ ~dry_run /\ prev_crash.noted
    /\ prev_crash.att # {} /\ Cardinality(run_ok) = 2
    /\ \A j \in RowIds : Written(j)

\* C15. Watermark invariant. In every reachable state, every source record
\* with id at most the last_id in the checkpoint file has been given to
\* migrate_chunk at least once, by this process or an earlier one.
C15_WatermarkInvariant ==
    \A i \in RowIds : i <= file.data.last_id => i \in ever_att

\* The checkpoint file covers two records, and a record of the current run failed.
C15_Witness ==
    /\ file.state = "ok" /\ file.data.last_id = 2
    /\ Cardinality(RowIds) = 2
    /\ run_att \ run_ok # {}

\* C16. Completion means nothing un-attempted. When a non-dry run() has
\* returned, every record that was in the source when the process started,
\* with id above the last_id it loaded, has been given to migrate_chunk by
\* this run, also when other clients inserted rows during the run.
C16_NothingUnattempted ==
    (pc = "returned" /\ ~dry_run) =>
        \A i \in start_ids : i > start_file.data.last_id => i \in run_att

\* A real run has returned; a row was inserted while it ran, and the run
\* attempted the rows it started with and the inserted one.
C16_Witness ==
    /\ pc = "returned" /\ ~dry_run
    /\ start_ids # {} /\ start_ids \subseteq run_att
    /\ (DOMAIN source \ start_ids) \cap run_att # {}

\* The three keys of the marker.
MarkerKeys == {"firebase_doc_id", "firebase_migrated_at", "firebase_storage_path"}

\* Row new is row old with the marker of old.id and path sp merged into its
\* meta: every field but meta is as before, and so is every other meta key.
AnnotatedFrom(old, new, sp) ==
    /\ new.id = old.id /\ new.source_table = old.source_table /\ new.title = old.title
    /\ new.content = old.content /\ new.embedding = old.embedding
    /\ DOMAIN new.meta = (DOMAIN old.meta) \cup MarkerKeys
    /\ \A k \in (DOMAIN old.meta) \ MarkerKeys : new.meta[k] = old.meta[k]
    /\ new.meta["firebase_doc_id"] = Some(ToString(old.id))
    /\ new.meta["firebase_migrated_at"] # None
    /\ new.meta["firebase_storage_path"] = sp

\* C17. Source frame of the migration pass. A step of run() or
\* migrate_chunk removes no source row and adds none; it leaves every row
\* as it is, except that the annotation of batch[idx] merges the marker
\* into the meta of that row as the source holds it then (with the keys
\* other clients have written since the fetch).
C17_SourceFrame ==
    [][(pc \in {"count", "fetch", "finish"} \cup InBatch /\ <<pc, idx>>' # <<pc, idx>>) =>
          /\ DOMAIN source' = DOMAIN source
          /\ \A i \in DOMAIN source :
                \/ source'[i] = source[i]
                \/ /\ pc = "chunk_c" /\ i = batch[idx].id
                   /\ AnnotatedFrom(source[i], source'[i], storage_path)]_vars

\* A record has been migrated by the current run: its row has the marker,
\* the note it had, and a key that another client wrote after the row was
\* fetched (the document, built from the fetched row, does not have it).
C17_Witness ==
    \E i \in run_ok :
        /\ HasMarker(source[i]) /\ ~dry_run
        /\ {"note", "tag"} \subseteq DOMAIN source[i].meta
        /\ ToString(i) \in DOMAIN docs /\ "tag" \notin DOMAIN docs[ToString(i)].meta

\* C18. Storage decision of the transformer. The document that
\* migrate_chunk writes for a record has storagePath and contentLength, and
\* no inline content, exactly when skip_storage is false and the record's
\* content is non-empty; otherwise it has the inline content and neither
\* storagePath nor contentLength.
C18_StorageDecision ==
    [][(pc = "chunk_b" /\ pc' = "chunk_c" /\ ~dry_run) =>
          LET chunk == batch[idx]
              doc == docs'[ToString(chunk.id)]
              blobbed == ~skip_storage /\ chunk.content \notin {None, Some("")}
          IN  /\ (doc.storagePath # None) <=> blobbed
              /\ (doc.contentLength # None) <=> blobbed
              /\ (doc.content # None) <=> ~blobbed
              /\ blobbed => doc.storagePath = Some(<<"rag_chunks", chunk.source_table, chunk.id>>)
              /\ ~blobbed => doc.content = Some(chunk.content)]_vars

\* With skip_storage, the document of a record with content "hello" has
\* been written with the content inline and no storagePath.
C18_Witness ==
    /\ pc = "chunk_c" /\ ~dry_run /\ skip_storage
    /\ batch[idx].content = Some("hello")
    /\ ToString(batch[idx].id) \in DOMAIN docs
    /\ docs[ToString(batch[idx].id)].content = Some(Some("hello"))
    /\ docs[ToString(batch[idx].id)].storagePath = None

\* The backend has failed: no API key, the model call raised, or the reply
\* is malformed (not JSON, not an object, or an object without category,
\* reason or action).
BackendFailed ==
    \/ ~Truthy(api_key)
    \/ reply.kind = "raises"
    \/ /\ reply.kind = "text"
       /\ LET parsed == json_loads_reply(reply.text) IN
            \/ parsed.raised
            \/ parsed.value.type # "object"
            \/ ~({"category", "reason", "action"} \subseteq DOMAIN parsed.value.fields)

\* C19 as stated. Moderation fail-open: when safety_check has answered a
\* request with non-empty content and the backend has failed, the answer is
\* a body with category SAFE, action ALLOW and a reason.
C19_AsStated ==
    (sc_pc = "done" /\ Truthy(payload) /\ BackendFailed) =>
        /\ result.kind = "returned" /\ result.value.type = "object"
        /\ {"category", "reason", "action"} \subseteq DOMAIN result.value.fields
        /\ result.value.fields["category"] = "SAFE"
        /\ result.value.fields["action"] = "ALLOW"

\* C20 as stated. Moderation taxonomy: every body that safety_check returns
\* has a category among SAFE, INAPPROPRIATE, SPAM, SPOILER and an action
\* among ALLOW, BLOCK.
C20_AsStated ==
    (sc_pc = "done" /\ result.kind = "returned") =>
        /\ result.value.type = "object"
        /\ {"category", "action"} \subseteq DOMAIN result.value.fields
        /\ result.value.fields["category"] \in {"SAFE", "INAPPROPRIATE", "SPAM", "SPOILER"}
        /\ result.value.fields["action"] \in {"ALLOW", "BLOCK"}

\* run(), lines 241-244: what the final summary reports. The one figure is
\* self.progress['migrated_count']; run() keeps no count of failures.
final_summary(p) == [migrated_count |-> p.migrated_count]

\* C21 as stated. Error tally: when run() has printed its final summary,
\* the summary has a failure count, which is the number of records the run
\* attempted minus the number that succeeded.
C21_AsStated ==
    (pc = "returned" /\ run_att # {}) =>
        /\ "failures" \in DOMAIN final_summary(progress)
        /\ final_summary(progress)["failures"] = Cardinality(run_att) - Cardinality(run_ok)

\* C22. Loop exit rule. After a batch is checkpointed, run() fetches again
\* exactly when the batch had batch_size records, and leaves the loop
\* otherwise; a fetch leaves the loop exactly when it returns no record;
\* once out of the loop run() does not fetch; and a process that is at a
\* fetch gets out of the loop (or ends).
C22_LoopExit ==
    /\ [][(pc = "save_b" /\ pc' \in {"fetch", "finish"}) =>
            /\ Len(batch) <= batch_size
            /\ (pc' = "fetch") <=> (Len(batch) = batch_size)]_vars
    /\ [][(pc = "fetch" /\ pc' \in {"chunk_a", "finish"}) =>
            ((pc' = "finish") <=> (batch' = <<>>))]_vars
    /\ [][pc = "finish" => pc' # "fetch"]_vars
    /\ (pc = "fetch") ~> (pc \notin {"fetch"} \cup InBatch)

\* Two batches of batch_size records were checkpointed, and the fetch after
\* them returned nothing and ended the loop.
C22_Witness ==
    /\ pc = "finish" /\ batch = <<>>
    /\ Len(saves) = 2

\* The migrated_count persisted before the last checkpoint of the current
\* process: by its previous checkpoint, or by the file it started with.
PreviousCount ==
    IF Len(saves) > 1 THEN saves[Len(saves) - 1][2] ELSE start_file.data.migrated_count

\* C23. Success accounting. A checkpoint just persisted holds the
\* migrated_count persisted before it plus the number of records of the
\* finished batch for which migrate_chunk returned True; and the persisted
\* migrated_count never exceeds the number of distinct records at or below
\* last_id that succeeded in the checkpoint lineage, however often a record
\* was attempted again after a kill.
C23_SuccessAccounting ==
    /\ (pc \in {"fetch", "finish"} /\ batch # <<>>) =>
            /\ file.state = "ok"
            /\ file.data.migrated_count =
                 PreviousCount + Cardinality({k \in 1..Len(batch) : batch[k].id \in run_ok})
    /\ file.state = "ok" =>
            file.data.migrated_count <=
                Cardinality({i \in RowIds : i <= file.data.last_id /\ lin.ok[i] >= 1})

\* A resumed run has checkpointed a batch in which a record succeeded that had
\* already succeeded before the kill; both records are counted once.
C23_Witness ==
    /\ pc \in {"fetch", "finish"} /\ batch # <<>> /\ file.state = "ok"
    /\ start_file.state = "ok" /\ start_file.data.migrated_count = 1
    /\ \E k \in 1..Len(batch) : lin.ok[batch[k].id] = 2
    /\ file.data.migrated_count = 2

\* C24. Marker implies document. In every reachable state, every source row
\* whose meta has the marker has a document with its id in the document store.
C24_MarkerImpliesDocument ==
    \A i \in RowIds : HasMarker(source[i]) => ToString(i) \in DOMAIN docs

\* One row has the marker and its document; the document write of another
\* record raised after its blob was uploaded, and that record has neither.
C24_Witness ==
    /\ \E i \in RowIds : HasMarker(source[i]) /\ ToString(i) \in DOMAIN docs
    /\ \E i \in run_att \ run_ok :
        /\ ~ParsedEmbedding(source[i]).raised
        /\ \E path \in DOMAIN blobs : path[3] = i
        /\ ~HasMarker(source[i]) /\ ToString(i) \notin DOMAIN docs
        /\ ~dry_run /\ faults = 1 /\ conn = "ok" /\ pc \in Running

\* A document holds its record's content (through its blob, or inline and
\* non-empty), and its embedding.
HoldsContent(doc) ==
    \/ doc.storagePath # None
    \/ doc.content # None /\ Truthy(The(doc.content))

HoldsEmbedding(doc) == doc.embedding # None

\* C25 as stated. No loss of migrated data: no step of the tool replaces a
\* document that holds its record's content, or its embedding, by one that
\* does not (also not a run after a confirmed cleanup, when the source row
\* no longer has them).
C25_AsStated ==
    [][\A k \in DOMAIN docs :
          /\ HoldsContent(docs[k]) => HoldsContent(docs'[k])
          /\ HoldsEmbedding(docs[k]) => HoldsEmbedding(docs'[k])]_vars

\* C26 as stated. A real run migrates everything whatever preceded it: when
\* a non-dry run() has returned without a failed record (and no record failed
\* in the runs its checkpoint came from), every row that was in the source
\* when the run started has a document and the marker.
C26_AsStated ==
    (pc = "returned" /\ ~dry_run /\ run_att = run_ok /\ lin.clean) =>
        \A i \in start_ids : ToString(i) \in DOMAIN docs /\ HasMarker(source[i])

\* C27 as stated. Counter consistency: every checkpoint in the file has
\* migrated_count at most total_count.
C27_AsStated ==
    file.state = "ok" => file.data.migrated_count <= file.data.total_count

\* C28 as stated. A transform failure leaves no trace: while no attempt is
\* in progress, a record whose embedding text is malformed has no blob, no
\* document and no marker.
C28_AsStated ==
    pc \notin {"chunk_a", "chunk_b", "chunk_c"} =>
        \A i \in RowIds : source[i].embedding = Some(BadVector) => ~Written(i)

====
